---------------------------- MODULE Spec2Model ----------------------------
(***************************************************************************)
(* Model of the non-streaming chat proxy (src/backend/api/main.py):       *)
(* the token cache (get_token), the /chat/v2 handler (chat_non_stream),   *)
(* the run poller (_poll_run_result) and the text extractor               *)
(* (_extract_final_text).                                                  *)
(*                                                                         *)
(* JSON values are records [t, s, n, kids]:                                *)
(*   t    the Python type of the value: "null" (None), "num", "str",      *)
(*        "list", "dict"; "raise" marks a raised exception, "fall" a      *)
(*        strategy of the extractor that returned nothing;                *)
(*   s    the text of a str, as a sequence of pieces: " " and "\n" are    *)
(*        whitespace, every other piece is a run of non-blank characters; *)
(*   n    the value of a num;                                              *)
(*   kids the items of a list or dict, each [k |-> key, v |-> value]      *)
(*        (k = "" in a list).                                              *)
(* Time is counted in ticks of the clock; TOKEN_TTL_SECONDS, timeout_s    *)
(* and interval_s are given in ticks.                                      *)
(***************************************************************************)
EXTENDS Integers, Sequences, FiniteSets, TLC

\* ------------------------------------------------------------------ bounds
MaxLen == 3          \* longest content list given to the extractor
MaxClock == 3        \* the clock stops advancing here

\* ------------------------------------------------------- program constants
TOKEN_TTL_SECONDS == 2
timeout_s == 1
interval_s == 1

\* ------------------------------------------------------------- JSON values
Val(t, s, n, kids) == [t |-> t, s |-> s, n |-> n, kids |-> kids]
None == Val("null", <<>>, 0, <<>>)
Num(n) == Val("num", <<>>, n, <<>>)
Str(s) == Val("str", s, 0, <<>>)
List(items) == Val("list", <<>>, 0, [i \in DOMAIN items |-> [k |-> "", v |-> items[i]]])
Dict(pairs) == Val("dict", <<>>, 0, pairs)
KV(k, v) == [k |-> k, v |-> v]
\* a raised exception (KeyError, TypeError, AttributeError)
Raise == Val("raise", <<>>, 0, <<>>)
\* an extraction strategy that ran to its end without returning
Fall == Val("fall", <<>>, 0, <<>>)

\* isinstance(v, dict) / isinstance(v, list) / isinstance(v, str)
IsDict(v) == v.t = "dict"
IsList(v) == v.t = "list"
IsStr(v) == v.t = "str"

\* key in d, for a dict d
HasKey(d, key) == \E i \in DOMAIN d.kids : d.kids[i].k = key

\* d[key], for a dict d holding key
Lookup(d, key) == d.kids[CHOOSE i \in DOMAIN d.kids : d.kids[i].k = key].v

\* v[key]: KeyError on a dict without the key, TypeError on anything else
GetItem(v, key) ==
    IF v.t = "raise" THEN Raise
    ELSE IF IsDict(v) /\ HasKey(v, key) THEN Lookup(v, key)
    ELSE Raise

\* v.get(key): None when the key is missing; AttributeError off a dict
Get(v, key) ==
    IF ~IsDict(v) THEN Raise
    ELSE IF HasKey(v, key) THEN Lookup(v, key)
    ELSE None

\* bool(v)
Truthy(v) ==
    CASE v.t = "null" -> FALSE
      [] v.t = "num" -> v.n # 0
      [] v.t = "str" -> v.s # <<>>
      [] v.t \in {"list", "dict"} -> v.kids # <<>>
      [] OTHER -> FALSE

\* a or b
Or(a, b) == IF Truthy(a) THEN a ELSE b

\* ------------------------------------------------------------------- text
IsSpace(c) == c \in {" ", "\n"}

RECURSIVE LStrip(_)
LStrip(s) == IF s # <<>> /\ IsSpace(Head(s)) THEN LStrip(Tail(s)) ELSE s

RECURSIVE RStrip(_)
RStrip(s) ==
    IF s # <<>> /\ IsSpace(s[Len(s)]) THEN RStrip(SubSeq(s, 1, Len(s) - 1)) ELSE s

\* str.strip()
Strip(s) == RStrip(LStrip(s))

\* "\n".join(texts)
RECURSIVE Join(_)
Join(texts) ==
    IF texts = <<>> THEN <<>>
    ELSE IF Len(texts) = 1 THEN texts[1]
    ELSE texts[1] \o <<"\n">> \o Join(Tail(texts))

InSeq(x, seq) == \E i \in DOMAIN seq : seq[i] = x

\* list(dict.fromkeys(texts)): first occurrences, in order
RECURSIVE DedupFrom(_, _)
DedupFrom(texts, seen) ==
    IF texts = <<>> THEN seen
    ELSE IF InSeq(Head(texts), seen) THEN DedupFrom(Tail(texts), seen)
    ELSE DedupFrom(Tail(texts), Append(seen, Head(texts)))

\* mutant: the texts as collected, repeats included
DedupKeepsRepeats(texts) == texts

Dedup(texts) == DedupFrom(texts, <<>>)

\* ------------------------------------------------- _extract_final_text
\* isinstance(c, dict) and isinstance(c.get("text"), str)
HasText(c) == IsDict(c) /\ IsStr(Get(c, "text"))

\* [c.get("text") for c in contents if HasText(c)]
RECURSIVE CollectTexts(_)
CollectTexts(items) ==
    IF items = <<>> THEN <<>>
    ELSE IF HasText(Head(items).v)
         THEN <<Get(Head(items).v, "text").s>> \o CollectTexts(Tail(items))
         ELSE CollectTexts(Tail(items))

\* the body shared by the two content strategies: the list's texts,
\* deduplicated, joined and stripped; nothing when there is no text
ContentTexts(contents) ==
    IF IsList(contents) /\ CollectTexts(contents.kids) # <<>>
    THEN Str(Strip(Join(Dedup(CollectTexts(contents.kids)))))
    ELSE Fall

\* payload["result"]["data"]["message"]["content"]
NestedContent(payload) ==
    GetItem(GetItem(GetItem(GetItem(payload, "result"), "data"), "message"), "content")

\* the try block, without its except clause
TryNested(payload) ==
    IF NestedContent(payload).t = "raise" THEN Raise
    ELSE ContentTexts(NestedContent(payload))

\* mutant: the try block without its except clause
StrategyNestedNoExcept(payload) == TryNested(payload)

\* try: ... except Exception: pass
StrategyNested(payload) ==
    IF TryNested(payload).t = "raise" THEN Fall ELSE TryNested(payload)

\* if isinstance(payload.get("response"), str) and payload["response"].strip()
StrategyResponse(payload) ==
    IF IsStr(Get(payload, "response")) /\ Strip(Get(payload, "response").s) # <<>>
    THEN Str(Strip(Get(payload, "response").s))
    ELSE Fall

\* content = payload.get("content") ...
StrategyContent(payload) ==
    IF Get(payload, "content").t = "raise" THEN Raise
    ELSE ContentTexts(Get(payload, "content"))

\* the strategies after the isinstance guard
ExtractFromDict(payload) ==
    IF StrategyNested(payload).t # "fall" THEN StrategyNested(payload)
    ELSE IF StrategyResponse(payload).t # "fall" THEN StrategyResponse(payload)
    ELSE IF StrategyContent(payload).t # "fall" THEN StrategyContent(payload)
    ELSE Str(<<>>)

_extract_final_text(payload) ==
    IF ~IsDict(payload) THEN Str(<<>>) ELSE ExtractFromDict(payload)


\* a key that may be missing from a mapping
Absent == Val("absent", <<>>, 0, <<>>)
Opt(key, v) == IF v = Absent THEN <<>> ELSE <<KV(key, v)>>

\* ------------------------------------------------------ upstream responses
\* an httpx response: its status code, its body text, its parsed JSON
Response(code, text, json) == [code |-> code, text |-> text, json |-> json]
NoResponse == Response(0, None, None)
Ok(json) == Response(200, None, json)
FailCodes == {404, 503}
Failures == {Response(c, Str(<<"boom">>), None) : c \in FailCodes}

\* what the token issuer may answer
IssuerPayloads ==
    { Dict(<<KV("token", Str(<<"tokA">>))>>),
      Dict(<<KV("access_token", Str(<<"tokB">>))>>),
      Dict(<<KV("token", Str(<<>>)), KV("access_token", Str(<<"tokB">>))>>),
      Dict(<<KV("expires_in", Num(3600))>>) }

NestedTexts(items) ==
    Dict(<<KV("data", Dict(<<KV("message", Dict(<<KV("content", List(items))>>))>>))>>)
Text(s) == Dict(<<KV("text", Str(s))>>)

\* what the thread/run endpoint may answer to the trigger call: a JSON
\* object with optional thread_id, run_id, status and inline result data
TrigPayloads ==
    { Dict(<<KV("response", Str(<<"42">>)), KV("thread_id", Str(<<"t9">>))>>),
      Dict(<<KV("response", Str(<<" ", "hi", " ">>)), KV("run_id", Str(<<"r1">>))>>),
      Dict(<<KV("run_id", Str(<<"r1">>))>>),
      Dict(<<KV("run_id", Str(<<"r1">>)), KV("thread_id", Str(<<"t9">>)),
             KV("status", Str(<<"running">>))>>),
      Dict(<<KV("status", Str(<<"queued">>))>>),
      Dict(<<>>),
      Dict(<<KV("thread_id", Str(<<>>)), KV("run_id", Str(<<>>)),
             KV("status", Str(<<>>))>>),
      Dict(<<KV("result", NestedTexts(<<Text(<<" ">>)>>)),
             KV("response", Str(<<"42">>)), KV("run_id", Str(<<"r1">>))>>),
      Dict(<<KV("content", List(<<Text(<<"a">>), Text(<<"a">>), Text(<<"b">>)>>)),
             KV("thread_id", Str(<<"t9">>))>>) }

\* what the run-status endpoint may answer
PollPayloads ==
    { Dict(<<KV("status", Str(<<"running">>))>>),
      Dict(<<>>),
      Dict(<<KV("status", Str(<<"done">>)),
             KV("result", NestedTexts(<<Text(<<"final">>)>>))>>),
      Dict(<<KV("status", Str(<<"COMPLETED">>)), KV("response", Str(<<"42">>)),
             KV("thread_id", Str(<<"t7">>))>>),
      Dict(<<KV("state", Str(<<"Succeeded">>))>>),
      Dict(<<KV("status", Str(<<>>)), KV("state", Str(<<"success">>)),
             KV("thread_id", Str(<<>>))>>),
      Dict(<<KV("status", Str(<<"failed">>)), KV("thread_id", Str(<<"t7">>))>>),
      Dict(<<KV("state", Str(<<"Error">>))>>),
      Dict(<<KV("run_status", Str(<<"CANCELLED">>))>>) }

\* --------------------------------------------------------------- the state
VARIABLES
    clock,        \* the time monotonic() and time.time() read
    token,        \* app.state.token
    token_exp,    \* app.state.token_exp
    token_now,    \* history: the `now` of the get_token call that cached token
    token_at,     \* history: the clock when token was cached
    task,         \* the frame of each /chat/v2 request
    payload,      \* the argument of a lone _extract_final_text call
    extracted     \* its result

vars == <<clock, token, token_exp, token_now, token_at, task, payload, extracted>>


\* -------------------------------------------------- results and exceptions
\* what the caller of chat_non_stream gets: a JSONResponse (kind "json",
\* with its body) or an HTTPException (kind "error", with status code and
\* detail); detail is the sequence of the pieces of its text
Result(kind, status_code, body, detail) ==
    [kind |-> kind, status_code |-> status_code, body |-> body, detail |-> detail]
NoResult == Result("none", 0, None, <<>>)
JSONResponse(body) == Result("json", 200, body, <<>>)

\* an exception in flight inside chat_non_stream
Exc(type, status_code, detail, text) ==
    [type |-> type, status_code |-> status_code, detail |-> detail, text |-> text]
HTTPException(status_code, detail) == Exc("HTTPException", status_code, detail, None)
NoExc == Exc("none", 0, <<>>, None)
\* r.raise_for_status() on a non-2xx response
HTTPStatusError(resp) == Exc("HTTPStatusError", resp.code, <<>>, resp.text)

\* json.dumps(data), as a piece of text
Dumps(data) == Val("dumps", <<>>, 0, <<KV("", data)>>)
Lit(text) == Str(<<text>>)

\* str(e) of an HTTPException: "<status_code>: <detail>"
StrOfException(e) == <<Num(e.status_code), Lit(": ")>> \o e.detail

\* except httpx.HTTPStatusError
UpstreamError(e) ==
    Result("error", e.status_code, None, <<Lit("Upstream error: "), e.text>>)

\* except Exception
InternalError(e) ==
    Result("error", 500, None, <<Lit("Internal server error: ")>> \o StrOfException(e))

\* mutant: the generic except clause placed first
HandleGenericFirst(e) == InternalError(e)

\* the two except clauses of chat_non_stream, in their order
Handle(e) ==
    IF e.type = "HTTPStatusError" THEN UpstreamError(e) ELSE InternalError(e)

\* ------------------------------------------------------------ frames
Calls(issuer, trigger, poll) == [issuer |-> issuer, trigger |-> trigger, poll |-> poll]

\* how an iteration of _poll_run_result's loop ended: "return" (with the
\* payload), "raise" (with the exception) or "sleep"; "none" before the first
Outcome(kind, data, exc) == [kind |-> kind, data |-> data, exc |-> exc]
NoOutcome == Outcome("none", None, NoExc)

\* a request that has not arrived
Idle ==
    [ pc |-> "idle", thread_id |-> None, include_raw |-> 0, now |-> 0,
      trig_data |-> None, start |-> 0, wake |-> 0,
      timeout |-> 0, poll |-> NoOutcome,
      last_call |-> "none", last |-> NoResponse, calls |-> Calls(0, 0, 0),
      answered |-> Calls(0, 0, 0), out |-> NoResult ]

ThreadIds == {None, Str(<<"t0">>)}
IncludeRaw == {0, 1}

Init ==
    /\ clock = 0
    /\ token = None
    /\ token_exp = 0
    /\ token_now = 0
    /\ token_at = 0
    /\ task = [r \in {1} |-> Idle]
    /\ payload = None
    /\ extracted = None

\* -------------------------------------------------------------- get_token
\* if app.state.token and now < app.state.token_exp
CacheHit(now) == Truthy(token) /\ now < token_exp

\* tok = data.get("token") or data.get("access_token")
TokenOf(data) == Or(Get(data, "token"), Get(data, "access_token"))

\* mutant: the expiry counted from the moment the token is cached
NewExpiryFromCaching(now) == clock + TOKEN_TTL_SECONDS

\* app.state.token_exp = now + TOKEN_TTL_SECONDS
NewExpiry(now) == now + TOKEN_TTL_SECONDS

\* r.raise_for_status()
RaisesForStatus(resp) == resp.code \notin 200..299

\* ------------------------------------------------------- chat_non_stream
False == Val("bool", <<>>, 0, <<>>)

\* mutant: the raw payload attached whatever include_raw is
EnvelopeAlwaysRaw(status, response, thread_id, include_raw, raw) ==
    Dict(<<KV("error_message", False), KV("status", status),
           KV("response", response), KV("thread_id", thread_id), KV("raw", raw)>>)

\* out = {...}; if include_raw: out["raw"] = raw
Envelope(status, response, thread_id, include_raw, raw) ==
    Dict(<<KV("error_message", False), KV("status", status),
           KV("response", response), KV("thread_id", thread_id)>>
         \o (IF include_raw # 0 THEN <<KV("raw", raw)>> ELSE <<>>))

\* the frame leaves its try block with a response or an exception
Finish(f, result) == [f EXCEPT !.pc = "done", !.out = result]

\* an exception that is no HTTPException: its str() is its message
AttributeError == Exc("AttributeError", 0, <<Lit("object has no attribute")>>, None)

\* mutant: a status query sent along with the trigger call
PostTriggerAndPoll(f) ==
    [f EXCEPT !.pc = "await_trigger", !.calls.trigger = @ + 1, !.calls.poll = @ + 1]

\* trig = await app.state.client.post(THREAD_ENDPOINT, ...)
PostTrigger(f) == [f EXCEPT !.pc = "await_trigger", !.calls.trigger = @ + 1]

\* r = await app.state.client.get(url, headers=headers)
\* mutant: the elapsed time measured from the latest query
GetStatusRestartsClock(f) ==
    [f EXCEPT !.pc = "await_poll", !.calls.poll = @ + 1, !.start = clock]

GetStatus(f) == [f EXCEPT !.pc = "await_poll", !.calls.poll = @ + 1]

\* _poll_run_result is entered: start = time.time(), then the first query
EnterPoll(f, timeout, clk) == GetStatus([f EXCEPT !.start = clk, !.timeout = timeout])

\* returned_thread = trig_data.get("thread_id") or thread_id
ReturnedThread(f) == Or(Get(f.trig_data, "thread_id"), f.thread_id)

\* the envelope of the inline path
InlineEnvelope(f) ==
    Envelope(Lit("completed"), _extract_final_text(f.trig_data), ReturnedThread(f),
             f.include_raw, f.trig_data)

\* mutant: the trigger response's own status dropped
NoRunEnvelopeUnknown(f) ==
    Envelope(Lit("unknown"), Str(<<>>), ReturnedThread(f), f.include_raw, f.trig_data)

\* the envelope of a trigger response without text and without run id
NoRunEnvelope(f) ==
    Envelope(Or(Get(f.trig_data, "status"), Lit("unknown")), Str(<<>>),
             ReturnedThread(f), f.include_raw, f.trig_data)

\* mutant: the poll result's status and thread_id dropped
FinalEnvelopeCompleted(f, final_data) ==
    Envelope(Lit("completed"), Or(_extract_final_text(final_data), Str(<<>>)),
             ReturnedThread(f), f.include_raw, final_data)

\* the envelope built from the poller's result
FinalEnvelope(f, final_data) ==
    Envelope(Or(Get(final_data, "status"), Lit("completed")),
             Or(_extract_final_text(final_data), Str(<<>>)),
             Or(Get(final_data, "thread_id"), ReturnedThread(f)),
             f.include_raw, final_data)

\* mutant: the run id looked at before the inline text
AfterTriggerRunIdFirst(f, resp, clk) ==
    IF RaisesForStatus(resp) THEN Finish(f, Handle(HTTPStatusError(resp)))
    ELSE LET g == [f EXCEPT !.trig_data = resp.json] IN
         IF ~IsDict(g.trig_data) THEN Finish(g, Handle(AttributeError))
         ELSE IF Truthy(Get(g.trig_data, "run_id"))
              THEN EnterPoll(g, timeout_s, clk)
         ELSE IF Truthy(_extract_final_text(g.trig_data))
              THEN Finish(g, JSONResponse(InlineEnvelope(g)))
         ELSE Finish(g, JSONResponse(NoRunEnvelope(g)))

\* from trig.raise_for_status() to the first status query, or to the end
AfterTrigger(f, resp, clk) ==
    IF RaisesForStatus(resp) THEN Finish(f, Handle(HTTPStatusError(resp)))
    ELSE LET g == [f EXCEPT !.trig_data = resp.json] IN
         IF ~IsDict(g.trig_data) THEN Finish(g, Handle(AttributeError))
         ELSE IF Truthy(_extract_final_text(g.trig_data))
              THEN Finish(g, JSONResponse(InlineEnvelope(g)))
         ELSE IF ~Truthy(Get(g.trig_data, "run_id"))
              THEN Finish(g, JSONResponse(NoRunEnvelope(g)))
         ELSE EnterPoll(g, timeout_s, clk)

\* ------------------------------------------------------ _poll_run_result
\* the words the upstream statuses are spelled from, each with the other
\* letter-casings it comes in
Casings ==
    [ completed |-> {"COMPLETED", "Completed", "comPleted"},
      succeeded |-> {"SUCCEEDED", "Succeeded"},
      success |-> {"SUCCESS", "Success"},
      done |-> {"DONE", "Done", "dOnE"},
      failed |-> {"FAILED", "Failed"},
      error |-> {"ERROR", "Error"},
      cancelled |-> {"CANCELLED", "Cancelled"},
      canceled |-> {"CANCELED"},
      running |-> {"RUNNING", "Running"},
      complete |-> {"Complete"} ]

\* mutant: the status compared as spelled
LowerPieceAsIs(c) == c

\* str.lower() on a piece of text
LowerPiece(c) ==
    IF \E w \in DOMAIN Casings : c \in Casings[w]
    THEN CHOOSE w \in DOMAIN Casings : c \in Casings[w]
    ELSE c

\* v.lower(): AttributeError off a str
Lower(v) == IF IsStr(v) THEN Str([i \in DOMAIN v.s |-> LowerPiece(v.s[i])]) ELSE Raise

\* mutant: the three fields consulted in the opposite order
RunStatusLastFirst(data) ==
    Lower(Or(Or(Or(Get(data, "run_status"), Get(data, "state")), Get(data, "status")),
             Str(<<>>)))

\* (data.get("status") or data.get("state") or data.get("run_status") or "").lower()
RunStatus(data) ==
    Lower(Or(Or(Or(Get(data, "status"), Get(data, "state")), Get(data, "run_status")),
             Str(<<>>)))

SuccessStatuses == {Lit("completed"), Lit("succeeded"), Lit("success"), Lit("done")}
FailureStatuses == {Lit("failed"), Lit("error"), Lit("cancelled")}

\* mutant: a loop without its timeout
TimedOutNever(start, clk, timeout) == FALSE

\* if time.time() - start > timeout_s
TimedOut(start, clk, timeout) == clk - start > timeout

\* mutant: the elapsed time examined before the status
PollIterationTimeoutFirst(start, timeout, resp, clk) ==
    IF RaisesForStatus(resp) THEN Outcome("raise", None, HTTPStatusError(resp))
    ELSE IF RunStatus(resp.json).t = "raise" THEN Outcome("raise", None, AttributeError)
    ELSE IF TimedOut(start, clk, timeout)
         THEN Outcome("raise", None, HTTPException(408, <<Lit("Polling timed out.")>>))
    ELSE IF RunStatus(resp.json) \in SuccessStatuses THEN Outcome("return", resp.json, NoExc)
    ELSE IF RunStatus(resp.json) \in FailureStatuses
         THEN Outcome("raise", None,
                      HTTPException(400, <<Lit("Run failed: "), Dumps(resp.json)>>))
    ELSE Outcome("sleep", None, NoExc)

\* one iteration of the loop, from r.raise_for_status() on
PollIteration(start, timeout, resp, clk) ==
    IF RaisesForStatus(resp) THEN Outcome("raise", None, HTTPStatusError(resp))
    ELSE IF RunStatus(resp.json).t = "raise" THEN Outcome("raise", None, AttributeError)
    ELSE IF RunStatus(resp.json) \in SuccessStatuses THEN Outcome("return", resp.json, NoExc)
    ELSE IF RunStatus(resp.json) \in FailureStatuses
         THEN Outcome("raise", None,
                      HTTPException(400, <<Lit("Run failed: "), Dumps(resp.json)>>))
    ELSE IF TimedOut(start, clk, timeout)
         THEN Outcome("raise", None, HTTPException(408, <<Lit("Polling timed out.")>>))
    ELSE Outcome("sleep", None, NoExc)

\* what chat_non_stream does with the way the iteration ended
AfterIteration(f) ==
    IF f.poll.kind = "return" THEN Finish(f, JSONResponse(FinalEnvelope(f, f.poll.data)))
    ELSE IF f.poll.kind = "raise" THEN Finish(f, Handle(f.poll.exc))
    ELSE f

\* an iteration of the loop in its caller's frame
AfterPoll(f, resp, clk) ==
    LET o == PollIteration(f.start, f.timeout, resp, clk) IN
    IF o.kind = "sleep"
    THEN [f EXCEPT !.poll = o, !.pc = "sleeping", !.wake = clk + interval_s]
    ELSE AfterIteration([f EXCEPT !.poll = o])

\* ---------------------------------------------------------------- actions
Received(f, call, resp) ==
    [f EXCEPT !.last_call = call, !.last = resp, !.answered[call] = @ + 1]

\* mutant: a caller that finds a refresh in flight waits for its answer
\* and sends no request of its own
ArriveJoinsRefresh(r, thread_id, include_raw) ==
    /\ task[r].pc = "idle"
    /\ LET f == [Idle EXCEPT !.thread_id = thread_id, !.include_raw = include_raw] IN
       task' = [task EXCEPT ![r] =
                  IF CacheHit(clock)
                  THEN PostTrigger(f)
                  ELSE IF \E q \in DOMAIN task : task[q].pc = "await_issuer"
                  THEN [f EXCEPT !.pc = "await_issuer", !.now = clock]
                  ELSE [f EXCEPT !.pc = "await_issuer", !.now = clock,
                                 !.calls.issuer = @ + 1]]
    /\ UNCHANGED <<clock, token, token_exp, token_now, token_at, payload, extracted>>

\* a request arrives: chat_non_stream runs get_token up to its first await
Arrive(r, thread_id, include_raw) ==
    /\ task[r].pc = "idle"
    /\ LET f == [Idle EXCEPT !.thread_id = thread_id, !.include_raw = include_raw] IN
       task' = [task EXCEPT ![r] =
                  IF CacheHit(clock)
                  THEN PostTrigger(f)
                  ELSE [f EXCEPT !.pc = "await_issuer", !.now = clock,
                                 !.calls.issuer = @ + 1]]
    /\ UNCHANGED <<clock, token, token_exp, token_now, token_at, payload, extracted>>

\* mutant: the cache written before the token is looked at
IssuerRespondsStoresFirst(r, resp) ==
    /\ task[r].pc = "await_issuer"
    /\ LET f == Received(task[r], "issuer", resp) IN
       IF RaisesForStatus(resp)
       THEN /\ task' = [task EXCEPT ![r] = Finish(f, Handle(HTTPStatusError(resp)))]
            /\ UNCHANGED <<token, token_exp, token_now, token_at>>
       ELSE /\ token' = TokenOf(resp.json)
            /\ token_exp' = NewExpiry(f.now)
            /\ token_now' = f.now
            /\ token_at' = clock
            /\ task' = [task EXCEPT ![r] =
                          IF ~Truthy(TokenOf(resp.json))
                          THEN Finish(f, Handle(HTTPException(502,
                                   <<Lit("Auth server did not return a token.")>>)))
                          ELSE PostTrigger([f EXCEPT !.now = 0])]
    /\ UNCHANGED <<clock, payload, extracted>>

\* the issuer answers: the rest of get_token, then the trigger call
IssuerResponds(r, resp) ==
    /\ task[r].pc = "await_issuer"
    /\ LET f == Received(task[r], "issuer", resp) IN
       IF RaisesForStatus(resp)
       THEN /\ task' = [task EXCEPT ![r] = Finish(f, Handle(HTTPStatusError(resp)))]
            /\ UNCHANGED <<token, token_exp, token_now, token_at>>
       ELSE IF ~Truthy(TokenOf(resp.json))
       THEN /\ task' = [task EXCEPT ![r] =
                          Finish(f, Handle(HTTPException(502,
                                 <<Lit("Auth server did not return a token.")>>)))]
            /\ UNCHANGED <<token, token_exp, token_now, token_at>>
       ELSE /\ token' = TokenOf(resp.json)
            /\ token_exp' = NewExpiry(f.now)
            /\ token_now' = f.now
            /\ token_at' = clock
            /\ task' = [task EXCEPT ![r] =
                          PostTrigger([f EXCEPT !.now = 0])]
    /\ UNCHANGED <<clock, payload, extracted>>

\* the thread/run endpoint answers the trigger call
TriggerResponds(r, resp) ==
    /\ task[r].pc = "await_trigger"
    /\ task' = [task EXCEPT ![r] = AfterTrigger(Received(task[r], "trigger", resp), resp, clock)]
    /\ UNCHANGED <<clock, token, token_exp, token_now, token_at, payload, extracted>>

\* the run-status endpoint answers a status query
PollResponds(r, resp) ==
    /\ task[r].pc = "await_poll"
    /\ task' = [task EXCEPT ![r] = AfterPoll(Received(task[r], "poll", resp), resp, clock)]
    /\ UNCHANGED <<clock, token, token_exp, token_now, token_at, payload, extracted>>

\* await asyncio.sleep(interval_s) is over: the next status query
Wake(r) ==
    /\ task[r].pc = "sleeping"
    /\ clock >= task[r].wake
    /\ task' = [task EXCEPT ![r] = GetStatus([task[r] EXCEPT !.wake = 0])]
    /\ UNCHANGED <<clock, token, token_exp, token_now, token_at, payload, extracted>>

\* the caller has its response or its error
Deliver(r) ==
    /\ task[r].pc = "done"
    /\ task' = [task EXCEPT ![r] = Idle]
    /\ UNCHANGED <<clock, token, token_exp, token_now, token_at, payload, extracted>>

\* time passes
Tick ==
    /\ clock < MaxClock
    /\ clock' = clock + 1
    /\ UNCHANGED <<token, token_exp, token_now, token_at, task, payload, extracted>>

\* one step of the system, the requests' parameters and the upstream answers
\* drawn from the given sets
Run(thread_ids, include_raws, issuer, trigger, status) ==
    \/ \E r \in DOMAIN task, thread_id \in thread_ids, include_raw \in include_raws :
          Arrive(r, thread_id, include_raw)
    \/ \E r \in DOMAIN task, resp \in Failures \cup {Ok(d) : d \in issuer} :
          IssuerResponds(r, resp)
    \/ \E r \in DOMAIN task, resp \in Failures \cup {Ok(d) : d \in trigger} :
          TriggerResponds(r, resp)
    \/ \E r \in DOMAIN task, resp \in Failures \cup {Ok(d) : d \in status} :
          PollResponds(r, resp)
    \/ \E r \in DOMAIN task : Wake(r)
    \/ \E r \in DOMAIN task : Deliver(r)
    \/ Tick

\* one request at a time, against every upstream answer
Next == Run(ThreadIds, IncludeRaw, IssuerPayloads, TrigPayloads, PollPayloads)

Spec == Init /\ [][Next]_vars

\* concurrent requests sharing the token cache
InitConc ==
    /\ clock = 0
    /\ token = None
    /\ token_exp = 0
    /\ token_now = 0
    /\ token_at = 0
    /\ task = [r \in {1, 2} |-> Idle]
    /\ payload = None
    /\ extracted = None

ConcIssuerPayloads ==
    { Dict(<<KV("token", Str(<<"tokA">>))>>),
      Dict(<<KV("access_token", Str(<<"tokB">>))>>),
      Dict(<<KV("expires_in", Num(3600))>>) }
ConcTrigPayloads ==
    { Dict(<<KV("response", Str(<<"42">>)), KV("thread_id", Str(<<"t9">>))>>),
      Dict(<<KV("run_id", Str(<<"r1">>))>>) }
ConcPollPayloads ==
    { Dict(<<KV("status", Str(<<"running">>))>>),
      Dict(<<KV("status", Str(<<"done">>)),
             KV("result", NestedTexts(<<Text(<<"final">>)>>))>>) }

NextConc ==
    Run({None}, {0}, ConcIssuerPayloads, ConcTrigPayloads, ConcPollPayloads)

SpecConc == InitConc /\ [][NextConc]_vars

\* ---------------------------------------- _poll_run_result on its own
MaxTimeout == 2
Timeouts == 0..MaxTimeout

\* the status payloads of a run: each of the three fields missing, null,
\* empty or a word in some letter-casing
Spellings == DOMAIN Casings \cup UNION {Casings[w] : w \in DOMAIN Casings}
StatusValues ==
    {Absent, None, Str(<<>>), Str(<<" ", "done">>)} \cup {Str(<<w>>) : w \in Spellings}
StateValues ==
    {Absent, Str(<<>>), Str(<<"Succeeded">>), Str(<<"running">>), Str(<<"FAILED">>)}
RunStatusValues == {Absent, Str(<<"done">>), Str(<<"Error">>), Str(<<"queued">>)}
StatusPayload(status, state, run_status) ==
    Dict(Opt("status", status) \o Opt("state", state) \o Opt("run_status", run_status))
FirstValues ==
    {Absent, None, Str(<<>>), Str(<<"running">>), Str(<<"Done">>), Str(<<"FAILED">>)}
StatusPayloads ==
    { StatusPayload(status, Absent, Absent) : status \in StatusValues } \cup
    { StatusPayload(status, state, run_status) :
        status \in FirstValues, state \in StateValues, run_status \in RunStatusValues }

\* _poll_run_result(run_id, headers, timeout_s) has just been called
InitPoll ==
    /\ clock = 0
    /\ token = None
    /\ token_exp = 0
    /\ token_now = 0
    /\ token_at = 0
    /\ \E timeout \in Timeouts : task = [r \in {1} |-> EnterPoll(Idle, timeout, 0)]
    /\ payload = None
    /\ extracted = None

\* one step of the poller, the answers drawn from the given payloads
PollRun(status) ==
    \/ \E r \in DOMAIN task, resp \in Failures \cup {Ok(d) : d \in status} :
          PollResponds(r, resp)
    \/ \E r \in DOMAIN task : Wake(r)
    \/ Tick

NextPoll == PollRun(StatusPayloads)

SpecPoll == InitPoll /\ [][NextPoll]_vars

\* the poller when every status query returns, every sleep ends and the
\* clock advances
LivePayloads ==
    { StatusPayload(status, Absent, Absent) :
        status \in {Absent, Str(<<"running">>), Str(<<"Done">>), Str(<<"FAILED">>)} }

NextLive == PollRun(LivePayloads)

FairPoll ==
    /\ WF_vars(\E r \in DOMAIN task, resp \in Failures \cup {Ok(d) : d \in LivePayloads} :
                  PollResponds(r, resp))
    /\ WF_vars(\E r \in DOMAIN task : Wake(r))
    /\ WF_vars(Tick)

SpecLive == InitPoll /\ [][NextLive]_vars /\ FairPoll

\* ------------------------------------- _extract_final_text on its own
\* the payloads handed to the extractor: every shape of the three places
\* it looks in, with missing keys and wrong-typed values on the way
MkPayload(result, response, content) ==
    Dict(Opt("result", result) \o Opt("response", response) \o Opt("content", content))

SeqsUpTo(S, n) == UNION {[1..k -> S] : k \in 0..n}

Elements ==
    { Num(1), Dict(<<>>), Dict(<<KV("text", Num(1))>>),
      Text(<<"a">>), Text(<<"b">>), Text(<<" ">>) }
Lists == {List(items) : items \in SeqsUpTo(Elements, MaxLen)}
NonLists == {None, Num(1), Str(<<"a">>), Text(<<"a">>)}
ProbeLists == {List(<<>>), List(<<Text(<<" ">>)>>), List(<<Text(<<"a">>)>>)}

Nested(content) ==
    Dict(<<KV("data", Dict(<<KV("message", Dict(Opt("content", content)))>>))>>)
BrokenResults ==
    { Absent, None, Num(1), Str(<<"a">>), List(<<>>), Dict(<<>>),
      Dict(<<KV("data", List(<<>>))>>),
      Dict(<<KV("data", Dict(<<KV("message", Str(<<"a">>))>>))>>),
      Nested(Absent) }
Responses ==
    { Absent, None, Num(1), Str(<<>>), Str(<<" ">>), Str(<<" ", "hi", " ">>),
      Str(<<"42">>) }

NonDicts == {None, Num(1), Str(<<"a">>), List(<<>>), List(<<Text(<<"a">>)>>)}

\* p is one of the payloads handed to the extractor
IsExtractInput(p) ==
    \/ p \in NonDicts
    \/ \E result \in BrokenResults \cup {Nested(c) : c \in Lists \cup NonLists},
          response \in Responses,
          content \in {Absent, Num(1)} \cup ProbeLists :
          p = MkPayload(result, response, content)
    \/ \E result \in {Absent, Num(1)} \cup {Nested(c) : c \in ProbeLists},
          response \in Responses,
          content \in Lists \cup NonLists :
          p = MkPayload(result, response, content)

Pending == Val("pending", <<>>, 0, <<>>)

InitExtract ==
    /\ clock = 0
    /\ token = None
    /\ token_exp = 0
    /\ token_now = 0
    /\ token_at = 0
    /\ task = [r \in {1} |-> Idle]
    /\ IsExtractInput(payload)
    /\ extracted = Pending

\* the call returns, or raises
Extract ==
    /\ extracted = Pending
    /\ extracted' = _extract_final_text(payload)
    /\ UNCHANGED <<clock, token, token_exp, token_now, token_at, task, payload>>

NextExtract == Extract

SpecExtract == InitExtract /\ [][NextExtract]_vars

\* ------------------------------------------------------------------ claims
\* what a strategy located: its text, or "" when it found nothing
Located(found) == IF IsStr(found) THEN found ELSE Str(<<>>)

\* C9: _extract_final_text is total: for every payload it returns a string
\* and never raises, and it returns "" when none of its three places holds
\* text (so extract({}) = "").
C9_ExtractTotal ==
    extracted # Pending =>
        /\ IsStr(extracted)
        /\ ( /\ ~Truthy(Located(StrategyNested(payload)))
             /\ ~Truthy(Located(StrategyResponse(payload)))
             /\ ~Truthy(Located(StrategyContent(payload)))
             => extracted = Str(<<>>) )
        /\ (payload = Dict(<<>>) => extracted = Str(<<>>))

\* C9 witness: the extractor has run on a payload whose `result` is of the
\* wrong type and returned the text of a later place
C9_Witness ==
    /\ extracted # Pending
    /\ IsDict(payload)
    /\ TryNested(payload) = Raise
    /\ HasKey(payload, "result")
    /\ Truthy(extracted)

\* the first strategy, in the order nested content, response, top-level
\* content, whose output is a nonempty string; "" when there is none
FirstNonEmpty(p) ==
    IF ~IsDict(p) THEN Str(<<>>)
    ELSE IF Truthy(Located(StrategyNested(p))) THEN StrategyNested(p)
    ELSE IF Truthy(Located(StrategyResponse(p))) THEN StrategyResponse(p)
    ELSE IF Truthy(Located(StrategyContent(p))) THEN StrategyContent(p)
    ELSE Str(<<>>)

\* C10: the result of _extract_final_text is the output of the first
\* strategy, in the order (1) result.data.message.content, (2) response,
\* (3) content, whose output is a nonempty string; a later strategy is tried
\* also when the texts an earlier one collected trim to the empty string.
C10_FirstNonEmptyWins == extracted # Pending => extracted = FirstNonEmpty(payload)

\* the positions of a content sequence that hold a mapping whose `text` is
\* a string
TextAt(items) == {i \in DOMAIN items : IsDict(items[i].v) /\ IsStr(Get(items[i].v, "text"))}
TextOf(items, i) == Get(items[i].v, "text").s
\* those of them whose text does not occur at an earlier such position
FirstAt(items) ==
    {i \in TextAt(items) : \A j \in TextAt(items) : j < i => TextOf(items, j) # TextOf(items, i)}
\* the texts at the positions `at`, in order, with a newline between them
RECURSIVE Lines(_, _)
Lines(items, at) ==
    IF at = {} THEN <<>>
    ELSE LET i == CHOOSE k \in at : \A j \in at : k <= j IN
         IF at = {i} THEN TextOf(items, i)
         ELSE TextOf(items, i) \o <<"\n">> \o Lines(items, at \ {i})
\* s without its leading and trailing whitespace
Trimmed(s) ==
    LET solid == {i \in DOMAIN s : ~IsSpace(s[i])} IN
    IF solid = {} THEN <<>>
    ELSE SubSeq(s, CHOOSE i \in solid : \A j \in solid : i <= j,
                   CHOOSE i \in solid : \A j \in solid : j <= i)
\* the text the rule produces for a content sequence
RuleText(contents) == Str(Trimmed(Lines(contents.kids, FirstAt(contents.kids))))
\* a content sequence with at least one string text
HasTexts(contents) == IsList(contents) /\ TextAt(contents.kids) # {}

\* C11: for a content sequence reached by strategy 1 (result.data.message
\* .content) or strategy 3 (content), the text produced is the string `text`
\* fields of its mapping elements, in order, deduplicated keeping each
\* value's first occurrence, joined with newline and trimmed; elements that
\* are not mappings and `text` values that are not strings are ignored.
C11_ContentRule ==
    (extracted # Pending /\ IsDict(payload)) =>
        IF NestedContent(payload).t # "raise" /\ HasTexts(NestedContent(payload))
        THEN extracted = RuleText(NestedContent(payload))
        ELSE ( /\ StrategyResponse(payload) = Fall
               /\ HasTexts(Get(payload, "content")) )
             => extracted = RuleText(Get(payload, "content"))

\* C11 witness: the extractor ran on a content sequence with the texts a, a,
\* b among elements that are ignored, and returned "a\nb"
C11_Witness ==
    /\ extracted = Str(<<"a", "\n", "b">>)
    /\ IsDict(payload)
    /\ \E c \in {NestedContent(payload), Get(payload, "content")} :
          /\ IsList(c)
          /\ Len(c.kids) = 3
          /\ TextAt(c.kids) = {1, 2, 3}
          /\ FirstAt(c.kids) = {1, 3}

\* the last upstream answer a frame received was a 2xx answer to `call`
Answered(f, call) == f.last_call = call /\ ~RaisesForStatus(f.last)

\* a field of the envelope a frame returned
Field(f, key) == Get(f.out.body, key)

\* v when it holds a value (not missing, null or empty), else the default
OrElse(v, default) == IF Truthy(v) THEN v ELSE default

\* C1: a status poll that returns a terminal failure status (failed, error
\* or cancelled, in any letter case) ends chat_non_stream with a 400-class
\* error whose detail embeds the failing poll payload.
C1_RunFailedIs400 ==
    \A r \in DOMAIN task :
        ( /\ task[r].pc = "done"
          /\ Answered(task[r], "poll")
          /\ RunStatus(task[r].last.json) \in FailureStatuses )
        => /\ task[r].out.kind = "error"
           /\ task[r].out.status_code \in 400..499
           /\ InSeq(Dumps(task[r].last.json), task[r].out.detail)

\* C2: polling that sees only non-terminal statuses until the elapsed time
\* exceeds the timeout ends chat_non_stream with the timeout error: status
\* 408, detail "Polling timed out.".
C2_TimeoutIs408 ==
    \A r \in DOMAIN task :
        ( /\ task[r].pc = "done"
          /\ Answered(task[r], "poll")
          /\ RunStatus(task[r].last.json) \notin SuccessStatuses \cup FailureStatuses )
        => task[r].out = Result("error", 408, None, <<Lit("Polling timed out.")>>)

\* a get_token call starts in this step
GetTokenCalled(r) == task[r].pc = "idle" /\ task'[r].pc # "idle"
\* it returned the cached token without a call to the issuer
ServedFromCache(r) == task'[r].pc = "await_trigger" /\ task'[r].calls.issuer = 0
\* it sent exactly one request to the issuer
Refreshing(r) == task'[r].pc = "await_issuer" /\ task'[r].calls.issuer = 1

\* C3 as stated: with T the time the credential was cached, every get_token
\* call at T' with T <= T' < T + TOKEN_TTL_SECONDS returns the cached token
\* without calling the issuer, and a call at or after T + TOKEN_TTL_SECONDS
\* makes exactly one issuer call.
C3_WindowFromCaching ==
    [][\A r \in DOMAIN task :
          GetTokenCalled(r) /\ Truthy(token) =>
              IF token_at <= clock /\ clock < token_at + TOKEN_TTL_SECONDS
              THEN ServedFromCache(r)
              ELSE Refreshing(r)]_vars

\* C3 amended: with T the clock read at the start of the get_token call that
\* cached the credential, every get_token call made while that credential is
\* cached at T' < T + TOKEN_TTL_SECONDS returns the cached token without
\* calling the issuer, and every such call at or after T + TOKEN_TTL_SECONDS
\* (or with nothing cached) makes exactly one issuer call.
C3_WindowFromCallStart ==
    [][\A r \in DOMAIN task :
          GetTokenCalled(r) =>
              IF Truthy(token) /\ clock < token_now + TOKEN_TTL_SECONDS
              THEN ServedFromCache(r)
              ELSE Refreshing(r)]_vars

\* C3 witness: one request was served from a credential cached some time
\* before expiry, and another, arriving at the expiry, is refreshing it
C3_Witness ==
    \E r1, r2 \in DOMAIN task :
        /\ task[r1].pc = "await_trigger" /\ task[r1].calls.issuer = 0
        /\ task[r2].pc = "await_issuer" /\ task[r2].calls.issuer = 1
        /\ Truthy(token)
        /\ token_now < token_at
        /\ task[r2].now = token_now + TOKEN_TTL_SECONDS

\* C4: when the extractor finds text in the trigger response, the request
\* ends at once with the envelope {error_message: false, status:
\* "completed", response: that text, thread_id: the trigger response's
\* thread_id, else the request's}, and no status query is issued, with or
\* without a run_id in the trigger response.
C4_InlineText ==
    \A r \in DOMAIN task :
        ( /\ Answered(task[r], "trigger")
          /\ Truthy(_extract_final_text(task[r].last.json)) )
        => /\ task[r].pc = "done"
           /\ task[r].out.kind = "json"
           /\ Field(task[r], "error_message") = False
           /\ Field(task[r], "status") = Lit("completed")
           /\ Field(task[r], "response") = _extract_final_text(task[r].last.json)
           /\ Field(task[r], "thread_id")
                = OrElse(Get(task[r].last.json, "thread_id"), task[r].thread_id)
           /\ task[r].calls.poll = 0

\* C4 witness: an inline answer that also carried a run_id and no thread_id,
\* for a request that named a thread
C4_Witness ==
    \E r \in DOMAIN task :
        /\ task[r].pc = "done"
        /\ Answered(task[r], "trigger")
        /\ Truthy(Get(task[r].last.json, "run_id"))
        /\ Truthy(task[r].thread_id)
        /\ Field(task[r], "response") = Str(<<"hi">>)
        /\ Field(task[r], "thread_id") = task[r].thread_id

\* C5: when the extractor finds no text in the trigger response and the
\* response has no run id, the request ends successfully with status = the
\* trigger response's status field ("unknown" when it has none), response
\* "", and no status query is issued.
C5_NoRunId ==
    \A r \in DOMAIN task :
        ( /\ Answered(task[r], "trigger")
          /\ ~Truthy(_extract_final_text(task[r].last.json))
          /\ ~Truthy(Get(task[r].last.json, "run_id")) )
        => /\ task[r].pc = "done"
           /\ task[r].out.kind = "json"
           /\ Field(task[r], "status")
                = OrElse(Get(task[r].last.json, "status"), Lit("unknown"))
           /\ Field(task[r], "response") = Str(<<>>)
           /\ task[r].calls.poll = 0

\* C5 witness: the trigger answered status "queued" and nothing else
C5_Witness ==
    \E r \in DOMAIN task :
        /\ task[r].pc = "done"
        /\ task[r].last = Ok(Dict(<<KV("status", Str(<<"queued">>))>>))
        /\ Field(task[r], "status") = Lit("queued")

\* C6: when the trigger response has no text but a run id, the poller is
\* invoked, and the envelope is built from the terminal poll result:
\* response = the extractor on the poll result, status = the poll result's
\* status field ("completed" when it has none), thread_id = the poll
\* result's thread_id, else the one determined before.
C6_PolledResult ==
    \A r \in DOMAIN task :
        /\ ( /\ Answered(task[r], "trigger")
             /\ ~Truthy(_extract_final_text(task[r].last.json))
             /\ Truthy(Get(task[r].last.json, "run_id")) )
           => task[r].pc = "await_poll" /\ task[r].calls.poll = 1
        /\ ( /\ Answered(task[r], "poll")
             /\ RunStatus(task[r].last.json) \in SuccessStatuses )
           => /\ task[r].pc = "done"
              /\ task[r].out.kind = "json"
              /\ Field(task[r], "response") = _extract_final_text(task[r].last.json)
              /\ Field(task[r], "status")
                   = OrElse(Get(task[r].last.json, "status"), Lit("completed"))
              /\ Field(task[r], "thread_id")
                   = OrElse(Get(task[r].last.json, "thread_id"),
                            OrElse(Get(task[r].trig_data, "thread_id"),
                                   task[r].thread_id))

\* C6 witness: the trigger gave only run_id r1, the first poll was pending,
\* the second had status "done" and the text "final"
C6_Witness ==
    \E r \in DOMAIN task :
        /\ task[r].pc = "done"
        /\ task[r].trig_data = Dict(<<KV("run_id", Str(<<"r1">>))>>)
        /\ task[r].calls.poll = 2
        /\ task[r].out.kind = "json"
        /\ Field(task[r], "response") = Str(<<"final">>)
        /\ Field(task[r], "status") = Lit("done")

\* C7: every envelope chat_non_stream returns has error_message = false,
\* and has a raw field if and only if the caller set include_raw.
C7_EnvelopeShape ==
    \A r \in DOMAIN task :
        task[r].out.kind = "json"
        => /\ Field(task[r], "error_message") = False
           /\ HasKey(task[r].out.body, "raw") <=> task[r].include_raw # 0

\* C7 witness: a polled result returned with its raw payload
C7_Witness ==
    \E r \in DOMAIN task :
        /\ task[r].out.kind = "json"
        /\ task[r].last_call = "poll"
        /\ task[r].include_raw = 1
        /\ Field(task[r], "raw") = task[r].last.json

\* C8: a non-2xx answer to the trigger call or to a status query ends the
\* request at once (no call follows it) with an upstream error that
\* carries the upstream status code and the upstream body text.
C8_UpstreamError ==
    \A r \in DOMAIN task :
        ( /\ task[r].last_call \in {"trigger", "poll"}
          /\ RaisesForStatus(task[r].last) )
        => /\ task[r].pc = "done"
           /\ task[r].out
                = Result("error", task[r].last.code, None,
                         <<Lit("Upstream error: "), task[r].last.text>>)

\* C8 witness: the second status query of a run was answered 503
C8_Witness ==
    \E r \in DOMAIN task :
        /\ task[r].pc = "done"
        /\ task[r].last_call = "poll"
        /\ task[r].last.code = 503
        /\ task[r].calls.poll = 2
        /\ task[r].out.status_code = 503

\* the field the status is read from: the first of status, state and
\* run_status that holds a value; "" when none does
StatusRead(data) ==
    OrElse(Get(data, "status"),
           OrElse(Get(data, "state"), OrElse(Get(data, "run_status"), Str(<<>>))))
\* v is one of `words` in some letter-casing
SpelledAs(v, words) ==
    IsStr(v) /\ Len(v.s) = 1 /\ \E w \in words : v.s[1] = w \/ v.s[1] \in Casings[w]
SuccessWords == {"completed", "succeeded", "success", "done"}
FailureWords == {"failed", "error", "cancelled"}
\* how an iteration ended
ReturnedPayload(f) == f.poll = Outcome("return", f.last.json, NoExc)
RunFailed(f) ==
    f.poll = Outcome("raise", None,
                     HTTPException(400, <<Lit("Run failed: "), Dumps(f.last.json)>>))
PollTimedOut(f) ==
    f.poll = Outcome("raise", None, HTTPException(408, <<Lit("Polling timed out.")>>))
StillPending(f) == f.poll.kind = "sleep" \/ PollTimedOut(f)

\* C12: _poll_run_result classifies the status case-insensitively: any
\* letter-casing of completed, succeeded, success or done returns the poll
\* payload; any letter-casing of failed, error or cancelled is the run-failed
\* error; every other status, a missing or empty one included, is pending.
C12_CaseInsensitive ==
    \A r \in DOMAIN task :
        Answered(task[r], "poll") =>
            IF SpelledAs(StatusRead(task[r].last.json), SuccessWords)
            THEN ReturnedPayload(task[r])
            ELSE IF SpelledAs(StatusRead(task[r].last.json), FailureWords)
            THEN RunFailed(task[r])
            ELSE StillPending(task[r])

\* C12 witness: a status query answered "dOnE" returned its payload, where
\* the words are told apart by more than their first letter
C12_Witness ==
    \E r \in DOMAIN task :
        /\ Answered(task[r], "poll")
        /\ Get(task[r].last.json, "status") = Str(<<"dOnE">>)
        /\ ReturnedPayload(task[r])
        /\ task[r].pc = "done"

\* the first of the three status fields that is a key of the payload, and the
\* first that holds a value (not null, not empty); "none" when there is none
FirstPresentKey(data) ==
    IF HasKey(data, "status") THEN "status"
    ELSE IF HasKey(data, "state") THEN "state"
    ELSE IF HasKey(data, "run_status") THEN "run_status"
    ELSE "none"
FirstValuedKey(data) ==
    IF Truthy(Get(data, "status")) THEN "status"
    ELSE IF Truthy(Get(data, "state")) THEN "state"
    ELSE IF Truthy(Get(data, "run_status")) THEN "run_status"
    ELSE "none"
\* the payload with that field alone
Only(data, key) == IF key = "none" THEN Dict(<<>>) ELSE Dict(<<KV(key, Get(data, key))>>)
\* how the poller classifies a payload, and how an answered query ended
Classified(data) ==
    IF RunStatus(data) \in SuccessStatuses THEN "success"
    ELSE IF RunStatus(data) \in FailureStatuses THEN "failure"
    ELSE "pending"
EndedAs(f) ==
    IF ReturnedPayload(f) THEN "success"
    ELSE IF RunFailed(f) THEN "failure"
    ELSE IF StillPending(f) THEN "pending"
    ELSE "other"

\* C13 as stated: the status is read from the first of status, state,
\* run_status that is present in the poll payload: the query ends as it
\* would for the payload holding that field alone.
C13_FirstPresent ==
    \A r \in DOMAIN task :
        Answered(task[r], "poll") =>
            EndedAs(task[r]) =
                Classified(Only(task[r].last.json, FirstPresentKey(task[r].last.json)))

\* C13 amended: the status is read from the first of status, state,
\* run_status that holds a value (a field that is missing, null or empty is
\* passed over): the query ends as it would for the payload holding that
\* field alone, whatever the later fields hold.
C13_FirstValued ==
    \A r \in DOMAIN task :
        Answered(task[r], "poll") =>
            EndedAs(task[r]) =
                Classified(Only(task[r].last.json, FirstValuedKey(task[r].last.json)))

\* C13 witness: a query answered with status running next to state Succeeded
\* and run_status Error went on pending
C13_Witness ==
    \E r \in DOMAIN task :
        /\ Answered(task[r], "poll")
        /\ task[r].last.json =
              StatusPayload(Str(<<"running">>), Str(<<"Succeeded">>), Str(<<"Error">>))
        /\ task[r].poll.kind = "sleep"
        /\ task[r].pc = "sleeping"

\* the latest status query was answered with a status that is not terminal
AnsweredPending(f) == Answered(f, "poll") /\ Classified(f.last.json) = "pending"

\* C14: _poll_run_result called with timeout 0 against a run that stays
\* pending raises the timeout error at its first status check, or at the
\* second when the first was answered within the clock tick of the call: it
\* sleeps at most once and never sends a third query.
C14_ZeroTimeout ==
    \A r \in DOMAIN task :
        task[r].timeout = 0 =>
            /\ task[r].calls.poll <= 2
            /\ (task[r].pc = "sleeping" =>
                    task[r].calls.poll = 1 /\ task[r].wake = task[r].start + interval_s)
            /\ (AnsweredPending(task[r]) /\ task[r].pc = "done" => PollTimedOut(task[r]))
            /\ (AnsweredPending(task[r]) /\ task[r].answered.poll = 2 =>
                    PollTimedOut(task[r]) /\ task[r].pc = "done")

\* C14 witness: with timeout 0 the first check, answered at once, was
\* pending, and the second check raised the timeout error
C14_Witness ==
    \E r \in DOMAIN task :
        /\ task[r].timeout = 0
        /\ task[r].calls.poll = 2
        /\ task[r].answered.poll = 2
        /\ AnsweredPending(task[r])
        /\ PollTimedOut(task[r])
        /\ task[r].pc = "done"

\* the status query was answered with a non-2xx status
UpstreamFailed(f) == f.poll = Outcome("raise", None, HTTPStatusError(f.last))
\* the ways the loop ends that hold of a frame
Endings(f) ==
    {e \in {"completed", "failed", "timed_out", "upstream_error"} :
        \/ e = "completed" /\ ReturnedPayload(f)
        \/ e = "failed" /\ RunFailed(f)
        \/ e = "timed_out" /\ PollTimedOut(f)
        \/ e = "upstream_error" /\ UpstreamFailed(f)}

\* C15: when every status query is answered, every sleep ends and the clock
\* advances, the polling loop terminates; it ends in exactly one of
\* completed (payload returned), failed (run-failed error), timed_out
\* (timeout error) or an upstream HTTP error; and the retries are bounded by
\* the timeout: the loop sleeps only while the elapsed time is within the
\* timeout, so it sends at most timeout / interval + 2 queries.
C15_Terminates ==
    /\ <>(\A r \in DOMAIN task : task[r].pc = "done")
    /\ [](\A r \in DOMAIN task :
            /\ task[r].pc = "done" => Cardinality(Endings(task[r])) = 1
            /\ task[r].pc # "done" => task[r].poll.kind \in {"none", "sleep"}
            /\ task[r].pc = "sleeping" =>
                  task[r].wake - interval_s - task[r].start <= task[r].timeout
            /\ task[r].calls.poll <= (task[r].timeout \div interval_s) + 2)

\* C15 witness: with a positive timeout the loop retried as often as the
\* timeout allows and then ended with the timeout error
C15_Witness ==
    \E r \in DOMAIN task :
        /\ task[r].pc = "done"
        /\ task[r].timeout > 0
        /\ task[r].calls.poll = (task[r].timeout \div interval_s) + 2
        /\ Endings(task[r]) = {"timed_out"}

\* C20: in _poll_run_result a terminal status takes precedence over the
\* timeout: a status query is sent before the elapsed time is first examined,
\* so the loop never ends without an answered query; a query answered with a
\* success (or failure) status returns the payload (or raises the run-failed
\* error) whatever the elapsed time; and the timeout error is raised only by
\* the iteration whose query was classified as pending.
C20_StatusBeforeTimeout ==
    \A r \in DOMAIN task :
        /\ task[r].calls.poll >= 1
        /\ task[r].poll.kind # "none" => task[r].answered.poll >= 1
        /\ (Answered(task[r], "poll") /\ Classified(task[r].last.json) = "success")
              => ReturnedPayload(task[r])
        /\ (Answered(task[r], "poll") /\ Classified(task[r].last.json) = "failure")
              => RunFailed(task[r])
        /\ PollTimedOut(task[r])
              => AnsweredPending(task[r]) /\ task[r].answered.poll = task[r].calls.poll

\* C20 witness: with timeout 0 the second query, sent after a sleep and so
\* answered with the timeout already exceeded, brought a success status and
\* the loop returned its payload
C20_Witness ==
    \E r \in DOMAIN task :
        /\ task[r].timeout = 0
        /\ task[r].answered.poll = 2
        /\ Answered(task[r], "poll")
        /\ Classified(task[r].last.json) = "success"
        /\ clock - task[r].start > task[r].timeout
        /\ ReturnedPayload(task[r])
        /\ task[r].pc = "done"

\* the calls of one kind a request has sent and not yet seen answered
InFlight(f, call) == f.calls[call] - f.answered[call]
\* request r sends a call of this kind in this step
Sends(r, call) == task'[r].calls[call] > task[r].calls[call]
\* get_token has handed request r a token in this step: the cached one, or
\* the one the issuer just answered with
TokenObtained(r) ==
    \/ task[r].pc = "idle" /\ Truthy(token) /\ task'[r].calls.issuer = 0
    \/ /\ task[r].pc = "await_issuer"
       /\ task'[r].last_call = "issuer"
       /\ ~RaisesForStatus(task'[r].last)
       /\ Truthy(TokenOf(task'[r].last.json))
       /\ task'[r].answered.issuer = task'[r].calls.issuer

\* C16: within one chat_non_stream request, whatever the other requests
\* do: the trigger call is sent once get_token has returned a token; a
\* status query is sent only after the trigger call was answered; and a
\* status query is sent only when no other one of the request is in flight,
\* so at most one is in flight at any time.
C16_CallOrder ==
    [][\A r \in DOMAIN task :
          /\ Sends(r, "trigger") =>
                TokenObtained(r) /\ task'[r].calls.trigger = 1 /\ task'[r].calls.poll = 0
          /\ Sends(r, "poll") =>
                /\ task'[r].calls.trigger = 1
                /\ task'[r].answered.trigger = 1
                /\ InFlight(task[r], "poll") = 0
                /\ task'[r].calls.poll = task[r].calls.poll + 1
          /\ InFlight(task'[r], "poll") \in {0, 1}
          /\ InFlight(task'[r], "trigger") \in {0, 1}]_vars

\* C16 witness: one request has its second status query in flight while the
\* other, which arrived later, waits for the answer to its trigger call
C16_Witness ==
    \E r, q \in DOMAIN task :
        /\ r # q
        /\ task[r].pc = "await_poll"
        /\ task[r].calls.poll = 2
        /\ InFlight(task[r], "poll") = 1
        /\ task[q].pc = "await_trigger"
        /\ InFlight(task[q], "trigger") = 1

\* the issuer's answer to request r arrives in this step
RefreshEnds(r) == task[r].pc = "await_issuer" /\ task'[r].pc # "await_issuer"
\* that answer is a failure: a non-2xx status, or a payload with a value
\* neither for `token` nor for `access_token`
RefreshFailed(r) ==
    \/ task'[r].last.code \notin 200..299
    \/ /\ ~Truthy(Get(task'[r].last.json, "token"))
       /\ ~Truthy(Get(task'[r].last.json, "access_token"))

\* C17: when a get_token refresh fails (the issuer answers non-2xx, or with
\* a payload holding neither a token nor an access_token), the call ends in
\* an error and the cached token and its expiry are left as they were; the
\* cache changes only in a step where a refresh succeeds, which stores the
\* token the issuer returned.
C17_FailedRefreshKeepsCache ==
    [][ /\ \A r \in DOMAIN task :
              RefreshEnds(r) =>
                  IF RefreshFailed(r)
                  THEN /\ token' = token
                       /\ token_exp' = token_exp
                       /\ task'[r].pc = "done"
                       /\ task'[r].out.kind = "error"
                       /\ task'[r].calls.trigger = 0
                  ELSE /\ token' = OrElse(Get(task'[r].last.json, "token"),
                                          Get(task'[r].last.json, "access_token"))
                       /\ task'[r].out.kind # "error"
        /\ (token' # token \/ token_exp' # token_exp) =>
              \E r \in DOMAIN task : RefreshEnds(r) /\ ~RefreshFailed(r)
      ]_vars

\* C17 witness: a refresh of an expired credential was answered without a
\* token: the request ended in an error and the old credential is still
\* cached with its old expiry
C17_Witness ==
    \E r \in DOMAIN task :
        /\ task[r].pc = "done"
        /\ task[r].last_call = "issuer"
        /\ task[r].last.code = 200
        /\ ~Truthy(TokenOf(task[r].last.json))
        /\ task[r].out.kind = "error"
        /\ Truthy(token)
        /\ token_exp <= clock

\* the issuer requests sent and not yet answered, over all requests
RefreshesInFlight == {r \in DOMAIN task : InFlight(task[r], "issuer") = 1}

\* C18: get_token has no single-flight: a caller that finds the cache empty
\* or expired sends its own issuer request also when the refresh of another
\* request is in flight, so that two issuer requests are in flight at once.
C18_NoSingleFlight ==
    [][\A r \in DOMAIN task :
          ( /\ GetTokenCalled(r)
            /\ ~(Truthy(token) /\ clock < token_exp)
            /\ RefreshesInFlight # {} )
          => /\ Refreshing(r)
             /\ RefreshesInFlight' = RefreshesInFlight \cup {r}
             /\ Cardinality(RefreshesInFlight') >= 2]_vars

\* C18 witness: two issuer requests are in flight at once
C18_Witness ==
    /\ Cardinality(RefreshesInFlight) = 2
    /\ \A r \in DOMAIN task : task[r].pc = "await_issuer"

\* C19: whatever the interleaving of concurrent get_token calls, the cached
\* expiry app.state.token_exp never decreases: a refresh that completes
\* later never stores an expiry earlier than the one already cached.
C19_ExpiryNeverDecreases == [][token_exp' >= token_exp]_vars

=========================================================================
